---- MODULE Spec2Model ----
(***************************************************************************)
(* A model of self_supervised/main_pretrain.py: the driver main(cfg) that  *)
(* validates the configuration, builds the method, the data pipeline, the  *)
(* resume path, the callbacks and the Trainer, and starts training.  One   *)
(* action per statement group of main(); every call of a collaborator that *)
(* is not part of this file (solo, pytorch_lightning, ...) is logged in    *)
(* `calls` and may raise.  The checkpoint directory `fs` outlives an       *)
(* invocation, so that a later invocation with the same configuration can  *)
(* be followed.                                                            *)
(***************************************************************************)
EXTENDS Naturals, Sequences, FiniteSets, TLC

\* ------------------------------------------------------------------ bounds
\* number of invocations of the script that are followed
MaxRuns == 2
\* number of training epochs a run of Trainer.fit is followed for
MaxEpochs == 1
\* number of augmentation groups in cfg.augmentations
NumAugs == 1
\* number of input fields in which an invocation differs from the Base inputs
MaxDeviations == 3

\* ------------------------------------------------------------- vocabulary
\* Python's None (distinct from the string "None")
NoneVal == "<None>"
\* a local name that has not been assigned yet
Undefined == "<undefined>"

\* solo.methods.METHODS: the registry keys the model distinguishes
METHODS == {"byol", "simclr", "mae", "wmse"}
\* the registered classes that derive from BaseMomentumMethod
MomentumMethods == {"byol"}
\* the methods allowed to run with num_large_crops != 2
CropExceptions == {"wmse", "mae"}
\* the pretrain_cfg values for which no weight file is loaded
NoLoadValues == {NoneVal, "None", "imagenet"}
\* the keys trainer_kwargs.update(...) sets unconditionally
OverrideKeys == {"logger", "callbacks", "enable_checkpointing", "strategy"}
\* cfg.checkpoint.dir
CkptDir == "trained_models"

\* top-level keys every parsed configuration has
BaseKeys == {"method", "name", "max_epochs", "strategy", "resume_from_checkpoint"}
\* a raw configuration's own values for keys the script overrides
RawValues == [logger |-> "raw_logger", callbacks |-> <<"RawCallback">>,
              enable_checkpointing |-> TRUE]

\* the parameter names Trainer.__init__ may declare (inspect.signature)
DeclaredSets ==
    { {"self", "logger", "callbacks", "enable_checkpointing", "strategy", "max_epochs",
       "resume_from_checkpoint"},
      {"self", "logger", "callbacks", "enable_checkpointing", "strategy", "max_epochs"},
      {"self", "logger", "callbacks", "strategy", "max_epochs"} }

\* the inputs of an invocation: the configuration (after parse_cfg's defaults), the
\* two import flags, and what the scanned checkpoint directory holds beforehand
Inputs ==
    [ method : METHODS \cup {"unknown"},
      num_large_crops : {1, 2},
      pretrained_weights : {NoneVal, "None", "imagenet", "zoo_weights"},
      dataset : {"custom", "cifar10"},
      val_path : {NoneVal, "val/"},
      format : {"dali", "image_folder"},
      custom_dataset_name : {"acdc", "other"},
      resume_from_checkpoint : {NoneVal, "explicit.ckpt"},
      auto_resume_enabled : BOOLEAN,
      checkpoint_enabled : BOOLEAN,
      auto_umap_enabled : BOOLEAN,
      wandb_enabled : BOOLEAN,
      strategy : {"ddp", "auto"},
      raw_overrides : BOOLEAN,
      dali_avaliable : BOOLEAN,
      umap_available : BOOLEAN,
      prior : {"none", "match", "mismatch"} ]

\* a configuration that trains; the inputs explored differ from it in at most
\* MaxDeviations fields
Base ==
    [ method |-> "byol", num_large_crops |-> 2, pretrained_weights |-> NoneVal,
      dataset |-> "cifar10", val_path |-> "val/", format |-> "image_folder",
      custom_dataset_name |-> "acdc", resume_from_checkpoint |-> NoneVal,
      auto_resume_enabled |-> FALSE, checkpoint_enabled |-> FALSE,
      auto_umap_enabled |-> FALSE, wandb_enabled |-> FALSE, strategy |-> "auto",
      raw_overrides |-> FALSE, dali_avaliable |-> TRUE, umap_available |-> TRUE,
      prior |-> "none" ]

Deviations(i) == Cardinality({k \in DOMAIN Base : i[k] # Base[k]})

BoundedInputs == {i \in Inputs : Deviations(i) <= MaxDeviations}

VARIABLES
    argv,            \* the configuration the script is invoked with
    env,             \* _dali_avaliable and _umap_available (module level)
    cfg,             \* main's cfg, mutated in place
    pc,              \* position in main
    failedAt,        \* where main raised
    calls,           \* the collaborators called so far in this invocation
    pretrain_cfg,    \* local of main
    model,           \* the method instance
    val_loader, train_loader, dali_datamodule,
    ckpt_path, wandb_run_id,
    callbacks, wandb_logger,
    valid_kwargs, trainer_kwargs, trainer,
    fitArgs,         \* the arguments of trainer.fit
    epoch,           \* epochs trained in this invocation
    fs,              \* checkpoints on disk, oldest first
    run              \* invocation number

vars == <<argv, env, cfg, pc, failedAt, calls, pretrain_cfg, model, val_loader,
          train_loader, dali_datamodule, ckpt_path, wandb_run_id, callbacks,
          wandb_logger, valid_kwargs, trainer_kwargs, trainer, fitArgs, epoch, fs, run>>

modelVars == <<pretrain_cfg, model>>
dataVars == <<val_loader, train_loader, dali_datamodule>>
resumeVars == <<ckpt_path, wandb_run_id>>
hookVars == <<callbacks, wandb_logger>>
trainerVars == <<valid_kwargs, trainer_kwargs, trainer, fitArgs, epoch>>
procVars == <<argv, env, fs, run>>

NoLogger == [created |-> FALSE, id |-> NoneVal, resume |-> NoneVal]
NoModel == [constructed |-> FALSE, is_momentum |-> FALSE, backbone |-> Undefined,
            momentum_backbone |-> Undefined]
NoFit == [called |-> FALSE, ckpt_path |-> Undefined, datamodule |-> Undefined,
          train |-> Undefined, val |-> Undefined]

\* the configuration part of the inputs; backbone.kwargs carries no "pretrained" key
CfgOf(i) ==
    [ method |-> i.method, num_large_crops |-> i.num_large_crops,
      pretrained_weights |-> i.pretrained_weights, pretrained |-> "<absent>",
      dataset |-> i.dataset, val_path |-> i.val_path, format |-> i.format,
      custom_dataset_name |-> i.custom_dataset_name,
      resume_from_checkpoint |-> i.resume_from_checkpoint,
      auto_resume_enabled |-> i.auto_resume_enabled,
      checkpoint_enabled |-> i.checkpoint_enabled,
      auto_umap_enabled |-> i.auto_umap_enabled, wandb_enabled |-> i.wandb_enabled,
      strategy |-> i.strategy, raw_overrides |-> i.raw_overrides ]

\* os.path.join(cfg.checkpoint.dir, cfg.method): the directory AutoResumer walks
ScanDir(c) == <<CkptDir, c.method>>

\* os.path.join(cfg.checkpoint.dir, f"{cfg.method}_{cfg.data.custom_dataset_name}"):
\* the directory the Checkpointer writes under
Logdir(c) == <<CkptDir, c.method \o "_" \o c.custom_dataset_name>>

\* what lies under the scanned directory before the first invocation: nothing, or
\* a checkpoint of an earlier program whose args.json matches or does not
PriorFs(i) ==
    IF i.prior = "none" THEN <<>>
    ELSE << [path |-> ScanDir(i) \o <<"prior_run">>, args_match |-> (i.prior = "match"),
             in_window |-> TRUE, wandb_run_id |-> "prev_id", by_run |-> 0] >>

Init ==
    \E i \in BoundedInputs :
        /\ argv = CfgOf(i)
        /\ env = [dali |-> i.dali_avaliable, umap |-> i.umap_available]
        /\ fs = PriorFs(i)
        /\ run = 1
        /\ cfg = argv
        /\ pc = "parse_cfg"
        /\ failedAt = NoneVal
        /\ calls = <<>>
        /\ pretrain_cfg = Undefined
        /\ model = NoModel
        /\ val_loader = Undefined
        /\ train_loader = Undefined
        /\ dali_datamodule = Undefined
        /\ ckpt_path = Undefined
        /\ wandb_run_id = Undefined
        /\ callbacks = <<>>
        /\ wandb_logger = NoLogger
        /\ valid_kwargs = {}
        /\ trainer_kwargs = <<>>
        /\ trainer = Undefined
        /\ fitArgs = NoFit
        /\ epoch = 0

\* ------------------------------------------------------------- helpers
Called(name) == \E i \in 1..Len(calls) : calls[i] = name
Count(name) == Cardinality({i \in 1..Len(calls) : calls[i] = name})
\* the first position of a call in the log (0 when absent)
FirstIndex(name) ==
    IF Called(name) THEN CHOOSE i \in 1..Len(calls) :
                              calls[i] = name /\ \A j \in 1..(i-1) : calls[j] # name
    ELSE 0

IsPrefix(p, q) == Len(p) <= Len(q) /\ \A i \in 1..Len(p) : p[i] = q[i]

\* main raises at `site` after the calls `done`
Raise(site, done) ==
    /\ pc' = "failed"
    /\ failedAt' = site
    /\ calls' = calls \o done

\* main goes on to `next` after the calls `done`
Goto(next, done) ==
    /\ pc' = next
    /\ failedAt' = failedAt
    /\ calls' = calls \o done

\* ---------------------------------------------------- 4.1 configuration
\* lines 77-83: set_struct, parse_cfg, cfg.name.format, seed_everything
ParseCfg ==
    /\ pc = "parse_cfg"
    /\ \/ Goto("assert_method", <<"parse_cfg", "seed_everything">>)
       \/ Raise("parse_cfg", <<"parse_cfg">>)
    /\ UNCHANGED <<cfg, modelVars, dataVars, resumeVars, hookVars, trainerVars, procVars>>

\* line 85 with the registry check dropped
MethodRegisteredUnchecked(c) == TRUE

\* line 85: cfg.method in METHODS
MethodRegistered(c) == c.method \in METHODS

\* line 85: assert cfg.method in METHODS
AssertMethod ==
    /\ pc = "assert_method"
    /\ IF MethodRegistered(cfg)
       THEN Goto("assert_crops", <<>>)
       ELSE Raise("assert cfg.method in METHODS", <<>>)
    /\ UNCHANGED <<cfg, modelVars, dataVars, resumeVars, hookVars, trainerVars, procVars>>

\* lines 87-88 without the exception list
CropsOkNoExceptions(c) == c.num_large_crops = 2

\* lines 87-88: the crop-count precondition
CropsOk(c) == c.num_large_crops # 2 => c.method \in CropExceptions

\* lines 87-88: if cfg.data.num_large_crops != 2: assert cfg.method in ["wmse", "mae"]
AssertCrops ==
    /\ pc = "assert_crops"
    /\ IF CropsOk(cfg)
       THEN Goto("construct", <<>>)
       ELSE Raise("assert cfg.method in [wmse, mae]", <<>>)
    /\ UNCHANGED <<cfg, modelVars, dataVars, resumeVars, hookVars, trainerVars, procVars>>

\* ---------------------------------------------------- 4.2 model assembly
\* the weights a freshly built backbone holds
InitialWeights(c) == IF c.pretrained = "True" THEN "imagenet_supervised" ELSE "random_init"

\* METHODS[cfg.method](cfg): the backbone is built; a BaseMomentumMethod also builds
\* momentum_backbone and seeds it from the backbone
NewModel(c) ==
    [ constructed |-> TRUE,
      is_momentum |-> c.method \in MomentumMethods,
      backbone |-> InitialWeights(c),
      momentum_backbone |-> IF c.method \in MomentumMethods THEN InitialWeights(c)
                            ELSE NoneVal ]

\* lines 91-102: pop pretrained_weights, default pretrained=True for "imagenet",
\* instantiate the method, reinsert the popped key
Construct ==
    /\ pc = "construct"
    /\ pretrain_cfg' = cfg.pretrained_weights
    /\ cfg' = [cfg EXCEPT !.pretrained =
                  IF cfg.pretrained_weights = "imagenet" /\ cfg.pretrained = "<absent>"
                  THEN "True" ELSE @]
    /\ \/ /\ model' = NewModel(cfg')
          /\ Goto("load_pretrained", <<"METHODS[cfg.method]">>)
       \/ /\ model' = model
          /\ Raise("METHODS[cfg.method]", <<"METHODS[cfg.method]">>)
    /\ UNCHANGED <<dataVars, resumeVars, hookVars, trainerVars, procVars>>

\* line 105
LoadsWeights(p) == p \notin NoLoadValues

\* line 109: model.backbone.load_state_dict(pretrained_weights)
LoadStateDict(m, w) == [m EXCEPT !.backbone = w]

\* line 112: initialize_momentum_params(model.backbone, model.momentum_backbone)
InitializeMomentumParams(m) == [m EXCEPT !.momentum_backbone = m.backbone]

\* the re-seeding done before the weights are loaded
LoadPretrainedReseedFirst(m, w) ==
    LoadStateDict(IF m.is_momentum THEN InitializeMomentumParams(m) ELSE m, w)

\* lines 109-113: load into the backbone, then re-seed the momentum backbone
LoadPretrained(m, w) ==
    LET loaded == LoadStateDict(m, w)
    IN IF loaded.is_momentum THEN InitializeMomentumParams(loaded) ELSE loaded

\* lines 105-113
LoadPretrainedWeights ==
    /\ pc = "load_pretrained"
    /\ IF LoadsWeights(pretrain_cfg)
       THEN \/ /\ model' = LoadPretrained(model, pretrain_cfg)
               /\ Goto("make_contiguous",
                       <<"get_state_dict_form_pretrained_model_zoo", "load_state_dict">>
                       \o (IF model.is_momentum THEN <<"initialize_momentum_params">>
                           ELSE <<>>))
            \/ /\ model' = model
               /\ Raise("get_state_dict_form_pretrained_model_zoo",
                        <<"get_state_dict_form_pretrained_model_zoo">>)
            \/ /\ model' = model
               /\ Raise("load_state_dict",
                        <<"get_state_dict_form_pretrained_model_zoo", "load_state_dict">>)
       ELSE /\ model' = model
            /\ Goto("make_contiguous", <<>>)
    /\ UNCHANGED <<cfg, pretrain_cfg, dataVars, resumeVars, hookVars, trainerVars, procVars>>

\* lines 115-118: make_contiguous and the channels_last layout; parameter values stay
MakeContiguous ==
    /\ pc = "make_contiguous"
    /\ Goto("val_loader", <<"make_contiguous">>)
    /\ UNCHANGED <<cfg, modelVars, dataVars, resumeVars, hookVars, trainerVars, procVars>>

\* ---------------------------------------------------- 4.3 data pipeline
\* lines 121-124 (cfg.data.no_labels is False, the dataset is not imagenet)
NoValLoader(c) == c.dataset = "custom" /\ c.val_path = NoneVal

\* lines 120-138
BuildValLoader ==
    /\ pc = "val_loader"
    /\ IF NoValLoader(cfg)
       THEN /\ val_loader' = NoneVal
            /\ Goto("pretrain_loader", <<>>)
       ELSE \/ /\ val_loader' = "val_loader"
               /\ Goto("pretrain_loader", <<"prepare_data_classification">>)
            \/ /\ val_loader' = val_loader
               /\ Raise("prepare_data_classification", <<"prepare_data_classification">>)
    /\ UNCHANGED <<cfg, modelVars, train_loader, dali_datamodule, resumeVars, hookVars,
                   trainerVars, procVars>>

\* the calls of one pass over cfg.augmentations
PerAug(name) == [k \in 1..NumAugs |-> name]

\* line 141
UsesDali(c) == c.format = "dali"

\* lines 142-144 with the import flag ignored
DaliUsableUnchecked(e) == TRUE

\* lines 142-144: assert _dali_avaliable
DaliUsable(e) == e.dali

\* lines 141-170: the DALI backend
BuildDaliPipeline ==
    /\ pc = "pretrain_loader"
    /\ UsesDali(cfg)
    /\ IF DaliUsable(env)
       THEN \/ /\ dali_datamodule' = "PretrainDALIDataModule"
               /\ Goto("resume", PerAug("build_transform_pipeline_dali")
                                 \o <<"PretrainDALIDataModule">>)
            \/ /\ dali_datamodule' = dali_datamodule
               /\ Raise("PretrainDALIDataModule",
                        PerAug("build_transform_pipeline_dali")
                        \o <<"PretrainDALIDataModule">>)
       ELSE /\ dali_datamodule' = dali_datamodule
            /\ Raise("Dali is not currently avaiable", <<>>)
    /\ UNCHANGED <<cfg, modelVars, val_loader, train_loader, resumeVars, hookVars,
                   trainerVars, procVars>>

\* lines 184-196: the dataset class
DatasetCall(c) ==
    IF c.custom_dataset_name = "acdc" THEN "ACDCDatasetUnlabeleld" ELSE "prepare_datasets"

\* lines 171-199: the standard backend
BuildStandardPipeline ==
    /\ pc = "pretrain_loader"
    /\ ~UsesDali(cfg)
    /\ \/ /\ train_loader' = "train_loader"
          /\ Goto("resume", PerAug("build_transform_pipeline")
                            \o <<DatasetCall(cfg), "prepare_dataloader">>)
       \/ /\ train_loader' = train_loader
          /\ Raise(DatasetCall(cfg), PerAug("build_transform_pipeline")
                                     \o <<DatasetCall(cfg)>>)
    /\ UNCHANGED <<cfg, modelVars, val_loader, dali_datamodule, resumeVars, hookVars,
                   trainerVars, procVars>>

\* ---------------------------------------------------- 4.4 auto-resume
\* the checkpoint file of a record on disk, as a path string
CkptFile(rec) == rec.path[1] \o "/" \o rec.path[2] \o "/" \o rec.path[3] \o "/last.ckpt"

\* AutoResumer.find_checkpoint: the checkpoints below the scanned directory that are
\* within max_hours and whose args.json matches the configuration
Candidates(files, dir) ==
    {k \in 1..Len(files) : /\ IsPrefix(dir, files[k].path)
                           /\ files[k].in_window
                           /\ files[k].args_match}

\* AutoResumer.find_checkpoint: the most recent candidate and its run id, or
\* (None, None)
FindCheckpoint(files, dir) ==
    IF Candidates(files, dir) = {} THEN <<NoneVal, NoneVal>>
    ELSE LET k == CHOOSE x \in Candidates(files, dir) :
                      \A y \in Candidates(files, dir) : y <= x
         IN <<CkptFile(files[k]), files[k].wandb_run_id>>

\* line 204 without the test for an explicit path
ScansWheneverEnabled(c) == c.auto_resume_enabled

\* line 204
ScansForCheckpoint(c) == c.auto_resume_enabled /\ c.resume_from_checkpoint = NoneVal

\* lines 203-215: the scan
ScanForCheckpoint ==
    /\ pc = "resume"
    /\ ScansForCheckpoint(cfg)
    /\ \/ /\ ckpt_path' = FindCheckpoint(fs, ScanDir(cfg))[1]
          /\ wandb_run_id' = FindCheckpoint(fs, ScanDir(cfg))[2]
          /\ Goto("callbacks", <<"AutoResumer.find_checkpoint">>)
       \/ /\ ckpt_path' = NoneVal
          /\ wandb_run_id' = NoneVal
          /\ Raise("AutoResumer.find_checkpoint", <<"AutoResumer.find_checkpoint">>)
    /\ UNCHANGED <<cfg, modelVars, dataVars, hookVars, trainerVars, procVars>>

\* lines 203, 216-218: the explicit path; the key is deleted from cfg
UseExplicitCheckpoint ==
    /\ pc = "resume"
    /\ ~ScansForCheckpoint(cfg)
    /\ cfg.resume_from_checkpoint # NoneVal
    /\ ckpt_path' = cfg.resume_from_checkpoint
    /\ wandb_run_id' = NoneVal
    /\ cfg' = [cfg EXCEPT !.resume_from_checkpoint = "<deleted>"]
    /\ Goto("callbacks", <<>>)
    /\ UNCHANGED <<modelVars, dataVars, hookVars, trainerVars, procVars>>

\* line 203 alone: neither branch is taken
NoResume ==
    /\ pc = "resume"
    /\ ~ScansForCheckpoint(cfg)
    /\ cfg.resume_from_checkpoint = NoneVal
    /\ ckpt_path' = NoneVal
    /\ wandb_run_id' = NoneVal
    /\ Goto("callbacks", <<>>)
    /\ UNCHANGED <<cfg, modelVars, dataVars, hookVars, trainerVars, procVars>>

\* ---------------------------------------------------- 4.5 callbacks
When(b, s) == IF b THEN s ELSE <<>>

\* lines 220-262: WeightsSaver placed before the learning-rate monitor
CallbackListWeightsSaverEarly(c) ==
    When(c.checkpoint_enabled, <<"Checkpointer">>)
    \o When(c.auto_umap_enabled, <<"AutoUMAP">>)
    \o When(c.checkpoint_enabled, <<"WeightsSaver">>)
    \o When(c.wandb_enabled, <<"LearningRateMonitor">>)

\* lines 220-262: the callbacks list
CallbackList(c) ==
    When(c.checkpoint_enabled, <<"Checkpointer">>)
    \o When(c.auto_umap_enabled, <<"AutoUMAP">>)
    \o When(c.wandb_enabled, <<"LearningRateMonitor">>)
    \o When(c.checkpoint_enabled, <<"WeightsSaver">>)

\* lines 245-252 with resume="allow" whatever the run id
NewWandbLoggerAlwaysResume(id) == [created |-> TRUE, id |-> id, resume |-> "allow"]

\* lines 245-252: WandbLogger(resume="allow" if wandb_run_id else None, id=wandb_run_id)
NewWandbLogger(id) ==
    [created |-> TRUE, id |-> id, resume |-> IF id # NoneVal THEN "allow" ELSE NoneVal]

\* the constructors lines 220-262 call, in order
HookCalls(c) ==
    When(c.checkpoint_enabled, <<"Checkpointer">>)
    \o When(c.auto_umap_enabled, <<"AutoUMAP">>)
    \o When(c.wandb_enabled, <<"WandbLogger", "LearningRateMonitor">>)
    \o When(c.checkpoint_enabled, <<"WeightsSaver">>)

\* lines 220-262
AssembleCallbacks ==
    /\ pc = "callbacks"
    /\ IF cfg.auto_umap_enabled /\ ~env.umap
       THEN /\ callbacks' = When(cfg.checkpoint_enabled, <<"Checkpointer">>)
            /\ wandb_logger' = wandb_logger
            /\ Raise("UMAP is not currently avaiable",
                     When(cfg.checkpoint_enabled, <<"Checkpointer">>))
       ELSE \/ /\ callbacks' = CallbackList(cfg)
               /\ wandb_logger' = IF cfg.wandb_enabled THEN NewWandbLogger(wandb_run_id)
                                  ELSE wandb_logger
               /\ Goto("trainer", HookCalls(cfg))
            \/ /\ cfg.wandb_enabled
               /\ callbacks' = When(cfg.checkpoint_enabled, <<"Checkpointer">>)
                               \o When(cfg.auto_umap_enabled, <<"AutoUMAP">>)
               /\ wandb_logger' = wandb_logger
               /\ Raise("WandbLogger",
                        When(cfg.checkpoint_enabled, <<"Checkpointer">>)
                        \o When(cfg.auto_umap_enabled, <<"AutoUMAP">>)
                        \o <<"WandbLogger">>)
    /\ UNCHANGED <<cfg, modelVars, dataVars, resumeVars, trainerVars, procVars>>

\* ---------------------------------------------------- 4.6 runner
\* the top-level keys of OmegaConf.to_container(cfg)
TopKeys(c) ==
    (BaseKeys \ (IF c.resume_from_checkpoint = "<deleted>" THEN {"resume_from_checkpoint"}
                 ELSE {}))
    \cup (IF c.raw_overrides THEN DOMAIN RawValues ELSE {})

\* line 264: OmegaConf.to_container(cfg), top level
Container(c) ==
    [k \in TopKeys(c) |->
        CASE k = "method" -> c.method
          [] k = "name" -> "run_name"
          [] k = "max_epochs" -> "400"
          [] k = "strategy" -> c.strategy
          [] k = "resume_from_checkpoint" -> c.resume_from_checkpoint
          [] OTHER -> RawValues[k]]

\* line 267: {name: trainer_kwargs[name] for name in valid_kwargs if name in trainer_kwargs}
FilterKwargs(d, valid) == [k \in (valid \cap DOMAIN d) |-> d[k]]

\* lines 269-276: the dictionary given to update
Overrides(c, logger, cbs) ==
    [ logger |-> IF c.wandb_enabled THEN "wandb_logger" ELSE NoneVal,
      callbacks |-> cbs,
      enable_checkpointing |-> FALSE,
      strategy |-> IF c.strategy = "ddp" THEN "DDPStrategy(find_unused_parameters=False)"
                   ELSE c.strategy ]

\* dict.update
Update(d, u) == [k \in (DOMAIN d \cup DOMAIN u) |-> IF k \in DOMAIN u THEN u[k] ELSE d[k]]

\* lines 264-277 with the update applied first and the filtered configuration on top
TrainerKwargsConfigWins(c, valid, logger, cbs) ==
    Update(Overrides(c, logger, cbs), FilterKwargs(Container(c), valid))

\* lines 264-277: trainer_kwargs
TrainerKwargs(c, valid, logger, cbs) ==
    Update(FilterKwargs(Container(c), valid), Overrides(c, logger, cbs))

\* lines 264-278: trainer_kwargs and Trainer(**trainer_kwargs); a keyword the
\* constructor does not declare is a TypeError
BuildTrainer ==
    /\ pc = "trainer"
    /\ \E valid \in DeclaredSets :
        /\ valid_kwargs' = valid
        /\ trainer_kwargs' = TrainerKwargs(cfg, valid, wandb_logger, callbacks)
        /\ IF DOMAIN trainer_kwargs' \subseteq valid
           THEN \/ /\ trainer' = "FitLoop"
                   /\ Goto("patch", <<"Trainer">>)
                \/ /\ trainer' = trainer
                   /\ Raise("Trainer", <<"Trainer">>)
           ELSE /\ trainer' = trainer
                /\ Raise("Trainer: unexpected keyword argument", <<"Trainer">>)
    /\ UNCHANGED <<cfg, modelVars, dataVars, resumeVars, hookVars, fitArgs, epoch, procVars>>

\* lines 283-295: the FitLoop workaround; any exception is swallowed
ApplyPatch ==
    /\ pc = "patch"
    /\ \/ trainer' = "WorkaroundFitLoop"
       \/ trainer' = trainer
    /\ Goto("fit", <<"WorkaroundFitLoop">>)
    /\ UNCHANGED <<cfg, modelVars, dataVars, resumeVars, hookVars, valid_kwargs,
                   trainer_kwargs, fitArgs, epoch, procVars>>

\* lines 297-300 with the two branches exchanged
FitArgumentsSwapped(c, ckpt, dm, tl, vl) ==
    IF ~UsesDali(c)
    THEN [called |-> TRUE, ckpt_path |-> ckpt, datamodule |-> dm, train |-> NoneVal,
          val |-> NoneVal]
    ELSE [called |-> TRUE, ckpt_path |-> ckpt, datamodule |-> NoneVal, train |-> tl,
          val |-> vl]

\* lines 297-300: the arguments of trainer.fit
FitArguments(c, ckpt, dm, tl, vl) ==
    IF UsesDali(c)
    THEN [called |-> TRUE, ckpt_path |-> ckpt, datamodule |-> dm, train |-> NoneVal,
          val |-> NoneVal]
    ELSE [called |-> TRUE, ckpt_path |-> ckpt, datamodule |-> NoneVal, train |-> tl,
          val |-> vl]

\* lines 297-300: trainer.fit starts
Fit ==
    /\ pc = "fit"
    /\ fitArgs' = FitArguments(cfg, ckpt_path, dali_datamodule, train_loader, val_loader)
    /\ Goto("training", <<"Trainer.fit">>)
    /\ UNCHANGED <<cfg, modelVars, dataVars, resumeVars, hookVars, valid_kwargs,
                   trainer_kwargs, trainer, epoch, procVars>>

\* ---------------------------------------------------- training and re-invocation
\* the checkpoint the Checkpointer hook of this invocation writes under its logdir
SavedCheckpoint(c, logger, r) ==
    [ path |-> Logdir(c) \o <<"run" \o ToString(r)>>,
      args_match |-> TRUE,
      in_window |-> TRUE,
      wandb_run_id |-> IF logger.created
                       THEN (IF logger.id # NoneVal THEN logger.id ELSE "new_id")
                       ELSE NoneVal,
      by_run |-> r ]

\* Checkpointer.save: the file of this invocation is replaced by the new one
Save(files, rec) == Append(SelectSeq(files, LAMBDA f : f.path # rec.path), rec)

\* an epoch of training ends; the Checkpointer hook, when installed, saves
TrainEpoch ==
    /\ pc = "training"
    /\ epoch < MaxEpochs
    /\ epoch' = epoch + 1
    /\ fs' = IF \E k \in 1..Len(callbacks) : callbacks[k] = "Checkpointer"
             THEN Save(fs, SavedCheckpoint(cfg, wandb_logger, run))
             ELSE fs
    /\ UNCHANGED <<argv, env, run, cfg, pc, failedAt, calls, modelVars, dataVars,
                   resumeVars, hookVars, valid_kwargs, trainer_kwargs, trainer, fitArgs>>

\* trainer.fit returns and main ends
FinishTraining ==
    /\ pc = "training"
    /\ epoch = MaxEpochs
    /\ Goto("done", <<>>)
    /\ UNCHANGED <<cfg, modelVars, dataVars, resumeVars, hookVars, trainerVars, procVars>>

\* an interrupt or a crash during training ends the process
Abort ==
    /\ pc = "training"
    /\ Goto("aborted", <<>>)
    /\ UNCHANGED <<cfg, modelVars, dataVars, resumeVars, hookVars, trainerVars, procVars>>

Ended == pc \in {"done", "failed", "aborted"}

\* between invocations more than auto_resume.max_hours go by
TimePasses ==
    /\ Ended
    /\ \E k \in 1..Len(fs) : fs[k].in_window
    /\ fs' = [k \in 1..Len(fs) |-> [fs[k] EXCEPT !.in_window = FALSE]]
    /\ UNCHANGED <<argv, env, run, cfg, pc, failedAt, calls, modelVars, dataVars,
                   resumeVars, hookVars, trainerVars>>

\* the script is invoked again with the same configuration
Restart ==
    /\ Ended
    /\ run < MaxRuns
    /\ run' = run + 1
    /\ cfg' = argv
    /\ pc' = "parse_cfg"
    /\ failedAt' = NoneVal
    /\ calls' = <<>>
    /\ pretrain_cfg' = Undefined
    /\ model' = NoModel
    /\ val_loader' = Undefined
    /\ train_loader' = Undefined
    /\ dali_datamodule' = Undefined
    /\ ckpt_path' = Undefined
    /\ wandb_run_id' = Undefined
    /\ callbacks' = <<>>
    /\ wandb_logger' = NoLogger
    /\ valid_kwargs' = {}
    /\ trainer_kwargs' = <<>>
    /\ trainer' = Undefined
    /\ fitArgs' = NoFit
    /\ epoch' = 0
    /\ UNCHANGED <<argv, env, fs>>

Next ==
    \/ ParseCfg
    \/ AssertMethod
    \/ AssertCrops
    \/ Construct
    \/ LoadPretrainedWeights
    \/ MakeContiguous
    \/ BuildValLoader
    \/ BuildDaliPipeline
    \/ BuildStandardPipeline
    \/ ScanForCheckpoint
    \/ UseExplicitCheckpoint
    \/ NoResume
    \/ AssembleCallbacks
    \/ BuildTrainer
    \/ ApplyPatch
    \/ Fit
    \/ TrainEpoch
    \/ FinishTraining
    \/ Abort
    \/ TimePasses
    \/ Restart

Spec == Init /\ [][Next]_vars

\* ------------------------------------------------------------- properties
RegistrySite == "assert cfg.method in METHODS"
CropsSite == "assert cfg.method in [wmse, mae]"
DaliSite == "Dali is not currently avaiable"
ScanCall == "AutoResumer.find_checkpoint"
FitCall == "Trainer.fit"
ConstructorCall == "METHODS[cfg.method]"
DataCalls == {"prepare_data_classification", "build_transform_pipeline",
              "build_transform_pipeline_dali", "ACDCDatasetUnlabeleld", "prepare_datasets",
              "prepare_dataloader", "PretrainDALIDataModule"}
StandardPathCalls == {"build_transform_pipeline", "ACDCDatasetUnlabeleld",
                      "prepare_datasets", "prepare_dataloader"}
CalledAny(names) == \E k \in 1..Len(calls) : calls[k] \in names
\* parse_cfg and seed_everything returned: main got as far as its own checks
PassedParse == Called("seed_everything")

\* C1: with a method name outside the registry, main never gets past the registry
\* check: once parse_cfg has returned it fails there, and the method constructor,
\* every data-loading step and Trainer.fit stay uncalled.
C1_UnknownMethodStopsAtRegistry ==
    argv.method \notin METHODS =>
        /\ pc \in {"parse_cfg", "assert_method", "failed"}
        /\ (pc = "failed" =>
                failedAt = IF PassedParse THEN RegistrySite ELSE "parse_cfg")
        /\ ~model.constructed
        /\ ~Called(ConstructorCall)
        /\ ~CalledAny(DataCalls)
        /\ ~Called(FitCall)

C1_Witness ==
    /\ argv.method \notin METHODS
    /\ pc = "failed"
    /\ failedAt = RegistrySite

\* C2: with a registered method, num_large_crops other than 2 and a method outside
\* {wmse, mae}, main fails before the model is constructed and training never
\* starts; with num_large_crops 2, or a method in {wmse, mae}, the crop check never
\* fails.
C2_CropCheck ==
    argv.method \in METHODS =>
        /\ (argv.num_large_crops # 2 /\ argv.method \notin {"wmse", "mae"}) =>
              /\ pc \in {"parse_cfg", "assert_method", "assert_crops", "failed"}
              /\ (pc = "failed" =>
                      failedAt = IF PassedParse THEN CropsSite ELSE "parse_cfg")
              /\ ~model.constructed
              /\ ~Called(ConstructorCall)
              /\ ~Called(FitCall)
        /\ (argv.num_large_crops = 2 \/ argv.method \in {"wmse", "mae"}) =>
              failedAt # CropsSite

C2_Witness ==
    /\ argv.method \in METHODS
    /\ pc = "failed"
    /\ failedAt = CropsSite

\* C3: with an explicit resume_from_checkpoint, find_checkpoint is never called,
\* whatever auto_resume.enabled is and whatever the checkpoint directory holds, and
\* Trainer.fit gets exactly the explicit path as ckpt_path.
C3_ExplicitPathWins ==
    argv.resume_from_checkpoint # NoneVal =>
        /\ ~Called(ScanCall)
        /\ (fitArgs.called => fitArgs.ckpt_path = argv.resume_from_checkpoint)

C3_Witness ==
    /\ argv.resume_from_checkpoint # NoneVal
    /\ argv.auto_resume_enabled
    /\ Candidates(fs, ScanDir(argv)) # {}
    /\ fitArgs.called

C5_DaliMissingFailsFast ==
    (argv.format = "dali" /\ ~env.dali) =>
        /\ ~CalledAny(StandardPathCalls)
        /\ ~Called("PretrainDALIDataModule")
        /\ ~Called(FitCall)
        /\ train_loader = Undefined
        /\ dali_datamodule = Undefined
        /\ pc \notin {"resume", "callbacks", "trainer", "patch", "fit", "training", "done",
                      "aborted"}
        /\ (pc = "failed" /\ val_loader # Undefined => failedAt = DaliSite)

C5_Witness ==
    /\ argv.format = "dali"
    /\ ~env.dali
    /\ pc = "failed"
    /\ failedAt = DaliSite

\* C6: once load_state_dict has succeeded for a weight specifier other than None,
\* "None" and "imagenet", the momentum backbone of a momentum method equals the
\* backbone, which holds the loaded weights, from the state right after the loading
\* step up to and after the start of training.
C6_MomentumMatchesLoadedBackbone ==
    ( /\ argv.pretrained_weights \notin {NoneVal, "None", "imagenet"}
      /\ Called("load_state_dict")
      /\ failedAt # "load_state_dict"
      /\ argv.method \in MomentumMethods ) =>
        /\ model.backbone = argv.pretrained_weights
        /\ model.momentum_backbone = model.backbone

C6_Witness ==
    /\ argv.pretrained_weights = "zoo_weights"
    /\ argv.method \in MomentumMethods
    /\ Called("initialize_momentum_params")
    /\ fitArgs.called
    /\ model.momentum_backbone = "zoo_weights"

\* the checkpoints an earlier invocation's Checkpointer saved that match the
\* configuration and are within the max_hours window
SavedEarlier ==
    {k \in 1..Len(fs) : /\ fs[k].by_run >= 1
                        /\ fs[k].by_run < run
                        /\ fs[k].in_window
                        /\ fs[k].args_match}

MostRecent(S) == CHOOSE x \in S : \A y \in S : y <= x

\* C7: the directory the scan walks contains the directory the Checkpointer writes
\* under, so an invocation with auto-resume enabled and no explicit path, following
\* one that saved a checkpoint still within the window, starts Trainer.fit from the
\* most recent saved checkpoint.
C7_AutoResumeRecovers ==
    ( /\ argv.auto_resume_enabled
      /\ argv.resume_from_checkpoint = NoneVal
      /\ fitArgs.called
      /\ epoch = 0
      /\ SavedEarlier # {} ) =>
        /\ IsPrefix(ScanDir(argv), Logdir(argv))
        /\ fitArgs.ckpt_path = CkptFile(fs[MostRecent(SavedEarlier)])

Hooks == {"Checkpointer", "AutoUMAP", "LearningRateMonitor", "WeightsSaver"}
HookOrder == <<"Checkpointer", "AutoUMAP", "LearningRateMonitor", "WeightsSaver">>
Range(q) == {q[k] : k \in 1..Len(q)}
\* the toggles lines 220-262 read
Toggles == [checkpoint_enabled : BOOLEAN, auto_umap_enabled : BOOLEAN,
            wandb_enabled : BOOLEAN]
\* the hook combinations some setting of the toggles produces
ReachableCombinations == {Range(CallbackList(t)) : t \in Toggles}
\* the callbacks list is complete: lines 220-262 have run to their end
Assembled == Called("Trainer") \/ pc = "trainer"

\* C8 as stated: the assembled list holds the hooks in the fixed order, and every one
\* of the 16 present/absent combinations of the four hooks is produced by some
\* configuration.
C8_AllSixteenCombinations ==
    Assembled =>
        /\ callbacks = SelectSeq(HookOrder, LAMBDA h : h \in Range(callbacks))
        /\ \A S \in SUBSET Hooks : S \in ReachableCombinations

\* C8 amended: Checkpointer and WeightsSaver are both present iff checkpoint.enabled,
\* AutoUMAP iff auto_umap.enabled, LearningRateMonitor iff wandb.enabled; so exactly
\* the 8 combinations with Checkpointer and WeightsSaver together or both missing
\* are produced; the hooks present appear once each, in the order Checkpointer,
\* AutoUMAP, LearningRateMonitor, WeightsSaver.
C8_ThreeTogglesFixedOrder ==
    /\ ReachableCombinations =
          {S \in SUBSET Hooks : ("Checkpointer" \in S) <=> ("WeightsSaver" \in S)}
    /\ Assembled =>
          /\ ("Checkpointer" \in Range(callbacks)) <=> argv.checkpoint_enabled
          /\ ("WeightsSaver" \in Range(callbacks)) <=> argv.checkpoint_enabled
          /\ ("AutoUMAP" \in Range(callbacks)) <=> argv.auto_umap_enabled
          /\ ("LearningRateMonitor" \in Range(callbacks)) <=> argv.wandb_enabled
          /\ callbacks = SelectSeq(HookOrder, LAMBDA h : h \in Range(callbacks))

C8_Witness ==
    /\ pc = "trainer"
    /\ callbacks = HookOrder

\* the scan found nothing in the directory as it is before training writes to it
ScanFindsNothing == FindCheckpoint(fs, ScanDir(argv)) = <<NoneVal, NoneVal>>

\* C9: find_checkpoint is called at most once in an invocation, only with
\* auto_resume.enabled and no explicit path, only after the model and the data
\* pipeline are built, and before Trainer.fit; an invocation that reaches Trainer.fit
\* with auto-resume enabled and no explicit path has called it exactly once; when it
\* returned (None, None), ckpt_path is None, Trainer.fit gets ckpt_path None and the
\* WandbLogger is created with id None and resume None.
C9_ScanOnceBeforeFit ==
    /\ Count(ScanCall) <= 1
    /\ Called(ScanCall) =>
          /\ argv.auto_resume_enabled
          /\ argv.resume_from_checkpoint = NoneVal
          /\ model.constructed
          /\ FirstIndex(ConstructorCall) < FirstIndex(ScanCall)
          /\ \/ train_loader # Undefined /\ FirstIndex("prepare_dataloader") < FirstIndex(ScanCall)
             \/ dali_datamodule # Undefined
                /\ FirstIndex("PretrainDALIDataModule") < FirstIndex(ScanCall)
    /\ Called(FitCall) =>
          /\ (argv.auto_resume_enabled /\ argv.resume_from_checkpoint = NoneVal)
                => Count(ScanCall) = 1
          /\ Called(ScanCall) => FirstIndex(ScanCall) < FirstIndex(FitCall)
          /\ calls[Len(calls)] = FitCall
    /\ (Called(ScanCall) /\ failedAt # ScanCall /\ epoch = 0 /\ ~Ended /\ ScanFindsNothing) =>
          /\ ckpt_path = NoneVal
          /\ wandb_run_id = NoneVal
          /\ (wandb_logger.created =>
                  wandb_logger.id = NoneVal /\ wandb_logger.resume = NoneVal)
          /\ (fitArgs.called => fitArgs.ckpt_path = NoneVal)

C9_Witness ==
    /\ Called(ScanCall)
    /\ ScanFindsNothing
    /\ wandb_logger.created
    /\ fitArgs.called
    /\ epoch = 0
    /\ pc = "training"

\* C10: once the Trainer is constructed main cannot fail: whether or not the FitLoop
\* patch applies, Trainer.fit is called, exactly once, with the DALI datamodule built
\* by the DALI branch iff data.format is "dali", and otherwise with the train loader
\* built by the standard branch and the validation loader.
C10_PatchNeverBlocksFit ==
    /\ Count(FitCall) <= 1
    /\ trainer # Undefined =>
          /\ pc \in {"patch", "fit", "training", "done", "aborted"}
          /\ (pc \in {"training", "done", "aborted"} => Count(FitCall) = 1 /\ fitArgs.called)
          /\ (pc = "fit" => Called("WorkaroundFitLoop"))
    /\ fitArgs.called =>
          /\ trainer \in {"FitLoop", "WorkaroundFitLoop"}
          /\ IF argv.format = "dali"
             THEN /\ fitArgs.datamodule = "PretrainDALIDataModule"
                  /\ fitArgs.datamodule = dali_datamodule
                  /\ Called("PretrainDALIDataModule")
                  /\ fitArgs.train = NoneVal
             ELSE /\ fitArgs.train = "train_loader"
                  /\ fitArgs.train = train_loader
                  /\ Called("prepare_dataloader")
                  /\ fitArgs.val = val_loader
                  /\ fitArgs.val # Undefined
                  /\ fitArgs.datamodule = NoneVal

C10_Witness ==
    /\ fitArgs.called
    /\ trainer = "FitLoop"
    /\ Called("WorkaroundFitLoop")
    /\ argv.format = "dali"
====
